---------------------------- MODULE Spec2Model ----------------------------
(***************************************************************************)
(* Model of the financial-metrics derivation and incremental               *)
(* reconciliation code of dart-fss-extractor:                              *)
(*   core/services/data_processing_service.py    (account matcher,         *)
(*                                                quarterly derivation)    *)
(*   core/services/incremental_update_service.py (gap detection, merge,    *)
(*                                                budgeted collection)     *)
(*                                                                         *)
(* Text is modelled as a sequence of characters, each character a string.  *)
(* A Hangul syllable is written as its romanised token ("mae" for U+B9E4), *)
(* every other character as itself.  Decimal amounts are integers.         *)
(***************************************************************************)
EXTENDS Integers, Sequences, FiniteSets, TLC

\* An optional value is a sequence of length at most one: Python's None and the
\* missing-cell sentinel (NaN) of a DataFrame are the empty sequence, and a
\* value v that is present is << v >>.
None == << >>

NaN == << >>

Some(v) == << v >>

Get(x) == x[1]

-----------------------------------------------------------------------------
(* Text helpers *)

RECURSIVE IndexFrom(_, _, _)
\* the least index >= i at which s holds character c, or 0
IndexFrom(s, c, i) ==
    IF i > Len(s) THEN 0
    ELSE IF s[i] = c THEN i
    ELSE IndexFrom(s, c, i + 1)

RECURSIVE Filter(_, _)
\* the characters of s that belong to the set keep, in order
Filter(s, keep) ==
    IF s = << >> THEN << >>
    ELSE (IF Head(s) \in keep THEN << Head(s) >> ELSE << >>) \o Filter(Tail(s), keep)

RECURSIVE Remove(_, _)
\* str.replace(c, ""): s without the character c
Remove(s, c) ==
    IF s = << >> THEN << >>
    ELSE (IF Head(s) = c THEN << >> ELSE << Head(s) >>) \o Remove(Tail(s), c)

\* Python's "k in s" for strings
IsSubstring(k, s) ==
    \E i \in 0..(Len(s) - Len(k)) : SubSeq(s, i + 1, i + Len(k)) = k

-----------------------------------------------------------------------------
(* data_processing_service.py: amounts *)

DIGITS == << "0", "1", "2", "3", "4", "5", "6", "7", "8", "9" >>

DigitValue(c) == (CHOOSE i \in 1..10 : DIGITS[i] = c) - 1

IsDigit(c) == \E i \in 1..10 : DIGITS[i] = c

RECURSIVE DigitsValue(_)
\* the number a non-empty digit string denotes
DigitsValue(s) ==
    IF Len(s) = 1 THEN DigitValue(s[1])
    ELSE 10 * DigitsValue(SubSeq(s, 1, Len(s) - 1)) + DigitValue(s[Len(s)])

AllDigits(s) == Len(s) >= 1 /\ \A i \in 1..Len(s) : IsDigit(s[i])

\* decimal.Decimal(s) on the characters the model uses (digits, sign, comma,
\* parentheses, letters): an optional sign and digits; anything else raises
\* InvalidOperation, which _parse_amount turns into None
Decimal(s) ==
    IF AllDigits(s) THEN Some(DigitsValue(s))
    ELSE IF Len(s) >= 2 /\ s[1] = "-" /\ AllDigits(Tail(s)) THEN Some(0 - DigitsValue(Tail(s)))
    ELSE IF Len(s) >= 2 /\ s[1] = "+" /\ AllDigits(Tail(s)) THEN Some(DigitsValue(Tail(s)))
    ELSE None

_parse_amount(amount_str) ==
    IF amount_str = << >> \/ amount_str = << "-" >> THEN None
    ELSE LET clean_str == Remove(amount_str, ",")
             negated   == IF Len(clean_str) >= 2 /\ clean_str[1] = "("
                                /\ clean_str[Len(clean_str)] = ")"
                          THEN << "-" >> \o SubSeq(clean_str, 2, Len(clean_str) - 1)
                          ELSE clean_str
         IN  Decimal(negated)

-----------------------------------------------------------------------------
(* data_processing_service.py: account matcher *)

\* the characters in the range U+AC00..U+D7A3 that the model uses
HANGUL == { "mae", "chul", "aek", "su", "ik", "yeong", "eop", "i", "dang", "gi",
            "sun", "son", "sil", "bun", "ban", "won", "ga", "chong" }

RECURSIVE StripParentheses(_)
\* re.sub(r'\([^)]*\)', '', name): each "(" that has a ")" after it is removed
\* together with everything up to the first such ")"
StripParentheses(s) ==
    LET i == IndexFrom(s, "(", 1)
        j == IF i = 0 THEN 0 ELSE IndexFrom(s, ")", i + 1)
    IN  IF i = 0 \/ j = 0 THEN s
        ELSE SubSeq(s, 1, i - 1) \o StripParentheses(SubSeq(s, j + 1, Len(s)))

Normalize(name) == Filter(StripParentheses(name), HANGUL)

\* The account names and keywords of the statement pools below, normalised
\* once: a table of Normalize, which _normalize_account_name looks up before
\* it computes.
KNOWN_NAMES ==
    { << "mae", "chul", "aek" >>,
      << "su", "ik", "(", "mae", "chul", "aek", ")" >>,
      << "yeong", "eop", "su", "ik" >>,
      << "mae", "chul" >>,
      << "yeong", "eop", "i", "ik" >>,
      << "yeong", "eop", "i", "ik", "(", "son", "sil", ")" >>,
      << "dang", "gi", "sun", "i", "ik" >>,
      << "dang", "gi", "sun", "i", "ik", "(", "son", "sil", ")" >>,
      << "bun", "gi", "sun", "i", "ik" >>,
      << "bun", "gi", "sun", "i", "ik", "(", "son", "sil", ")" >>,
      << "ban", "gi", "sun", "i", "ik" >>,
      << "ban", "gi", "sun", "i", "ik", "(", "son", "sil", ")" >>,
      << "sun", "mae", "chul", "aek" >>,
      << "won", "ga" >> }

NormalizedNames == [name \in KNOWN_NAMES |-> Normalize(name)]

_normalize_account_name(name) ==
    IF name \in KNOWN_NAMES THEN NormalizedNames[name] ELSE Normalize(name)

\* the (keyword, account) index pair the nested loops reach first
FirstHit(hits) ==
    CHOOSE h \in hits : \A g \in hits : h[1] < g[1] \/ (h[1] = g[1] /\ h[2] <= g[2])

_find_exact_match(accounts, keywords) ==
    LET key_normalized == [k \in 1..Len(keywords) |-> _normalize_account_name(keywords[k])]
        acc_normalized == [a \in 1..Len(accounts) |->
                              _normalize_account_name(accounts[a].account_nm)]
        hits == { h \in (1..Len(keywords)) \X (1..Len(accounts)) :
                    acc_normalized[h[2]] = key_normalized[h[1]] }
    IN  IF hits = {} THEN None
        ELSE _parse_amount(accounts[FirstHit(hits)[2]].thstrm_amount)

_find_partial_match(accounts, keywords) ==
    LET key_normalized == [k \in 1..Len(keywords) |-> _normalize_account_name(keywords[k])]
        acc_normalized == [a \in 1..Len(accounts) |->
                              _normalize_account_name(accounts[a].account_nm)]
        hits == { h \in (1..Len(keywords)) \X (1..Len(accounts)) :
                    IsSubstring(key_normalized[h[1]], acc_normalized[h[2]]) }
    IN  IF hits = {} THEN None
        ELSE _parse_amount(accounts[FirstHit(hits)[2]].thstrm_amount)

_find_account_value(accounts, keywords) ==
    LET result == _find_exact_match(accounts, keywords)
    IN  IF result # None THEN result
        ELSE _find_partial_match(accounts, keywords)

\* the built-in keyword lists (no configuration file)
REVENUE_KEYWORDS ==
    << << "mae", "chul", "aek" >>,
       << "su", "ik", "(", "mae", "chul", "aek", ")" >>,
       << "yeong", "eop", "su", "ik" >>,
       << "mae", "chul" >> >>

OP_PROFIT_KEYWORDS ==
    << << "yeong", "eop", "i", "ik" >>,
       << "yeong", "eop", "i", "ik", "(", "son", "sil", ")" >> >>

NET_INCOME_KEYWORDS ==
    << << "dang", "gi", "sun", "i", "ik" >>,
       << "dang", "gi", "sun", "i", "ik", "(", "son", "sil", ")" >>,
       << "bun", "gi", "sun", "i", "ik" >>,
       << "bun", "gi", "sun", "i", "ik", "(", "son", "sil", ")" >>,
       << "ban", "gi", "sun", "i", "ik" >>,
       << "ban", "gi", "sun", "i", "ik", "(", "son", "sil", ")" >> >>

-----------------------------------------------------------------------------
(* data_processing_service.py: quarterly derivation *)

FinancialMetrics(r, o, n) == [revenue |-> r, operating_profit |-> o, net_income |-> n]

METRICS == { "revenue", "operating_profit", "net_income" }

\* statement: an optional FinancialStatement that is present
extract_metrics(statement) ==
    FinancialMetrics(_find_account_value(Get(statement).accounts, REVENUE_KEYWORDS),
                     _find_account_value(Get(statement).accounts, OP_PROFIT_KEYWORDS),
                     _find_account_value(Get(statement).accounts, NET_INCOME_KEYWORDS))

_safe_sub(a, b) == IF a = None \/ b = None THEN None ELSE Some(Get(a) - Get(b))

_safe_add(a, b) == IF a = None \/ b = None THEN None ELSE Some(Get(a) + Get(b))

_calculate_diff(minuend, subtrahend) ==
    FinancialMetrics(_safe_sub(minuend.revenue, subtrahend.revenue),
                     _safe_sub(minuend.operating_profit, subtrahend.operating_profit),
                     _safe_sub(minuend.net_income, subtrahend.net_income))

_add_metrics(a, b) ==
    FinancialMetrics(_safe_add(a.revenue, b.revenue),
                     _safe_add(a.operating_profit, b.operating_profit),
                     _safe_add(a.net_income, b.net_income))

_calculate_q1(q1_stmt) ==
    IF q1_stmt # None THEN extract_metrics(q1_stmt) ELSE FinancialMetrics(None, None, None)

\* 2Q that subtracts the first quarter whatever the half-year's is_cumulative flag
_calculate_q2_always_diff(q1_stmt, semi_stmt) ==
    IF semi_stmt = None THEN FinancialMetrics(None, None, None)
    ELSE IF q1_stmt # None
         THEN _calculate_diff(extract_metrics(semi_stmt), extract_metrics(q1_stmt))
         ELSE extract_metrics(semi_stmt)

\* 2Q that takes the half-year for cumulative when its revenue is larger than
\* the first quarter's
_calculate_q2_by_magnitude(q1_stmt, semi_stmt) ==
    IF semi_stmt = None THEN FinancialMetrics(None, None, None)
    ELSE LET semi_metrics == extract_metrics(semi_stmt)
             q1_metrics   == _calculate_q1(q1_stmt)
         IN  IF /\ semi_metrics.revenue # None
                /\ q1_metrics.revenue # None
                /\ Get(semi_metrics.revenue) > Get(q1_metrics.revenue)
             THEN _calculate_diff(semi_metrics, q1_metrics)
             ELSE semi_metrics

_calculate_q2(q1_stmt, semi_stmt) ==
    IF semi_stmt = None THEN FinancialMetrics(None, None, None)
    ELSE LET semi_metrics == extract_metrics(semi_stmt)
         IN  IF Get(semi_stmt).is_cumulative /\ q1_stmt # None
             THEN _calculate_diff(semi_metrics, extract_metrics(q1_stmt))
             ELSE semi_metrics

\* 3Q that never subtracts the half-year
_calculate_q3_no_diff(semi_stmt, q3_stmt) ==
    IF q3_stmt = None THEN FinancialMetrics(None, None, None)
    ELSE extract_metrics(q3_stmt)

_calculate_q3(semi_stmt, q3_stmt) ==
    IF q3_stmt = None THEN FinancialMetrics(None, None, None)
    ELSE LET q3_metrics == extract_metrics(q3_stmt)
         IN  IF Get(q3_stmt).is_cumulative /\ semi_stmt # None
             THEN _calculate_diff(q3_metrics, extract_metrics(semi_stmt))
             ELSE q3_metrics

\* a cumulative figure that adds the half-year to the Q3 report whatever the
\* Q3 report covers
_get_cumulative_q3_always_sum(q1, semi, q3, q3_stmt) ==
    IF semi.revenue # None /\ q3.revenue # None THEN Some(_add_metrics(semi, q3))
    ELSE None

_get_cumulative_q3(q1, semi, q3, q3_stmt) ==
    IF q3_stmt # None /\ Get(q3_stmt).is_cumulative THEN Some(q3)
    ELSE IF semi.revenue # None /\ q3.revenue # None THEN Some(_add_metrics(semi, q3))
    ELSE None

_calculate_q4(q1_stmt, semi_stmt, q3_stmt, annual_stmt) ==
    IF annual_stmt = None THEN FinancialMetrics(None, None, None)
    ELSE LET annual_metrics == extract_metrics(annual_stmt)
             q1_metrics   == _calculate_q1(q1_stmt)
             semi_metrics == IF semi_stmt # None THEN extract_metrics(semi_stmt)
                             ELSE FinancialMetrics(None, None, None)
             q3_metrics   == IF q3_stmt # None THEN extract_metrics(q3_stmt)
                             ELSE FinancialMetrics(None, None, None)
             cumulative_q3 == _get_cumulative_q3(q1_metrics, semi_metrics, q3_metrics, q3_stmt)
         IN  IF cumulative_q3 # None THEN _calculate_diff(annual_metrics, Get(cumulative_q3))
             ELSE FinancialMetrics(None, None, None)

RECURSIVE _extract_corp_name_first_present(_)
\* the name of the first statement that is there, whatever that name is
_extract_corp_name_first_present(stmts) ==
    IF stmts = << >> THEN ""
    ELSE IF Head(stmts) # None THEN Get(Head(stmts)).corp_name
    ELSE _extract_corp_name_first_present(Tail(stmts))

RECURSIVE _extract_corp_name(_)
_extract_corp_name(stmts) ==
    IF stmts = << >> THEN ""
    ELSE IF Head(stmts) # None /\ Get(Head(stmts)).corp_name # "" THEN Get(Head(stmts)).corp_name
    ELSE _extract_corp_name(Tail(stmts))

QUARTERS == << "1Q", "2Q", "3Q", "4Q" >>

\* a series that leaves out the quarters without any figure
calculate_quarterly_performance_skip_empty(q1_stmt, semi_stmt, q3_stmt, annual_stmt) ==
    LET by_quarter ==
            [q \in { "1Q", "2Q", "3Q", "4Q" } |->
                CASE q = "1Q" -> _calculate_q1(q1_stmt)
                  [] q = "2Q" -> _calculate_q2(q1_stmt, semi_stmt)
                  [] q = "3Q" -> _calculate_q3(semi_stmt, q3_stmt)
                  [] q = "4Q" -> _calculate_q4(q1_stmt, semi_stmt, q3_stmt, annual_stmt)]
    IN  [corp_name |-> _extract_corp_name(<< q1_stmt, semi_stmt, q3_stmt, annual_stmt >>),
         metrics_by_quarter |->
            [q \in { k \in DOMAIN by_quarter : by_quarter[k] # FinancialMetrics(None, None, None) }
                |-> by_quarter[q]]]

calculate_quarterly_performance(q1_stmt, semi_stmt, q3_stmt, annual_stmt) ==
    [corp_name |-> _extract_corp_name(<< q1_stmt, semi_stmt, q3_stmt, annual_stmt >>),
     metrics_by_quarter |->
        [q \in { "1Q", "2Q", "3Q", "4Q" } |->
            CASE q = "1Q" -> _calculate_q1(q1_stmt)
              [] q = "2Q" -> _calculate_q2(q1_stmt, semi_stmt)
              [] q = "3Q" -> _calculate_q3(semi_stmt, q3_stmt)
              [] q = "4Q" -> _calculate_q4(q1_stmt, semi_stmt, q3_stmt, annual_stmt)]]

-----------------------------------------------------------------------------
(* Strings and labels of the result matrix *)

RECURSIVE IntToStr(_)
\* str(n) for n >= 0
IntToStr(n) ==
    IF n < 10 THEN << DIGITS[n + 1] >>
    ELSE IntToStr(n \div 10) \o << DIGITS[(n % 10) + 1] >>

\* the code points of the characters of labels, in ascending order
CHAR_ORDER == << ".", "0", "1", "2", "3", "4", "5", "6", "7", "8", "9", "Q", "x" >>

CharCode(c) == CHOOSE i \in 1..Len(CHAR_ORDER) : CHAR_ORDER[i] = c

RECURSIVE StrLess(_, _)
\* a < b for Python strings
StrLess(a, b) ==
    IF b = << >> THEN FALSE
    ELSE IF a = << >> THEN TRUE
    ELSE IF Head(a) = Head(b) THEN StrLess(Tail(a), Tail(b))
    ELSE CharCode(Head(a)) < CharCode(Head(b))

\* entity names are single capital letters; their order is the alphabet's
NAME_ORDER == << "A", "B", "C", "D" >>

NameLess(a, b) ==
    (CHOOSE i \in 1..Len(NAME_ORDER) : NAME_ORDER[i] = a)
        < (CHOOSE i \in 1..Len(NAME_ORDER) : NAME_ORDER[i] = b)

Range(s) == { s[i] : i \in 1..Len(s) }

RECURSIVE SortedNames(_)
\* the entity names of the finite set S in ascending order
SortedNames(S) ==
    IF S = {} THEN << >>
    ELSE LET m == CHOOSE x \in S : \A y \in S \ {x} : NameLess(x, y)
         IN  << m >> \o SortedNames(S \ {m})

RECURSIVE SortedLabels(_)
\* the labels of the finite set S in ascending string order
SortedLabels(S) ==
    IF S = {} THEN << >>
    ELSE LET m == CHOOSE x \in S : \A y \in S \ {x} : StrLess(x, y)
         IN  << m >> \o SortedLabels(S \ {m})

\* Index.union(other) of two indexes without duplicates: equal indexes and an
\* empty operand keep the order, anything else is the sorted union
UnionNames(a, b) ==
    IF a = b \/ b = << >> THEN a
    ELSE IF a = << >> THEN b
    ELSE SortedNames(Range(a) \cup Range(b))

UnionLabels(a, b) ==
    IF a = b \/ b = << >> THEN a
    ELSE IF a = << >> THEN b
    ELSE SortedLabels(Range(a) \cup Range(b))

-----------------------------------------------------------------------------
(* incremental_update_service.py: the result matrix *)

\* A DataFrame: index (entity names), columns (period labels) and one optional
\* number per cell.
DataFrame(index, columns, data) == [index |-> index, columns |-> columns, data |-> data]

\* df.loc[r, c], missing when the frame has no such row or column
Cell(df, r, c) ==
    IF r \in Range(df.index) /\ c \in Range(df.columns) THEN df.data[<< r, c >>] ELSE NaN

\* DataFrame.empty
IsEmpty(df) == df.index = << >> \/ df.columns = << >>

\* combine_first with the operands' priority swapped: new_df wins where it has a value
combine_first_new_wins(existing_df, new_df) ==
    LET index   == UnionNames(existing_df.index, new_df.index)
        columns == UnionLabels(existing_df.columns, new_df.columns)
    IN  DataFrame(index, columns,
            [rc \in Range(index) \X Range(columns) |->
                IF Cell(new_df, rc[1], rc[2]) # NaN
                THEN Cell(new_df, rc[1], rc[2])
                ELSE Cell(existing_df, rc[1], rc[2])])

\* a fill of existing_df's own rows only (fillna): rows that only new_df has are lost
combine_first_own_rows(existing_df, new_df) ==
    LET columns == UnionLabels(existing_df.columns, new_df.columns)
    IN  DataFrame(existing_df.index, columns,
            [rc \in Range(existing_df.index) \X Range(columns) |->
                IF Cell(existing_df, rc[1], rc[2]) # NaN
                THEN Cell(existing_df, rc[1], rc[2])
                ELSE Cell(new_df, rc[1], rc[2])])

\* existing_df.combine_first(new_df): the union of rows and columns, a cell of
\* existing_df where it is not missing and the cell of new_df elsewhere
combine_first(existing_df, new_df) ==
    LET index   == UnionNames(existing_df.index, new_df.index)
        columns == UnionLabels(existing_df.columns, new_df.columns)
    IN  DataFrame(index, columns,
            [rc \in Range(index) \X Range(columns) |->
                IF Cell(existing_df, rc[1], rc[2]) # NaN
                THEN Cell(existing_df, rc[1], rc[2])
                ELSE Cell(new_df, rc[1], rc[2])])

\* merged_df.sort_index(axis=0)
sort_index(df) == DataFrame(SortedNames(Range(df.index)), df.columns, df.data)

\* str.split('.')
RECURSIVE Split(_)
Split(s) ==
    LET i == IndexFrom(s, ".", 1)
    IN  IF i = 0 THEN << s >>
        ELSE << SubSeq(s, 1, i - 1) >> \o Split(SubSeq(s, i + 1, Len(s)))

\* int(s): digits with an optional sign; a ValueError is None
ParseInt(s) == Decimal(s)

\* sort_key(col): any exception gives (0, 0)
sort_key(col) ==
    IF IndexFrom(col, ".", 1) # 0
    THEN LET parts == Split(col)
         IN  IF Len(parts) # 2 THEN << 0, 0 >>
             ELSE LET year        == parts[1]
                      quarter     == parts[2]
                      quarter_num == IF quarter = << >> THEN None
                                     ELSE ParseInt(<< quarter[1] >>)
                  IN  IF quarter_num = None \/ ParseInt(year) = None THEN << 0, 0 >>
                      ELSE << Get(ParseInt(year)), Get(quarter_num) >>
    ELSE << 0, 0 >>

KeyLess(a, b) == a[1] < b[1] \/ (a[1] = b[1] /\ a[2] < b[2])

RECURSIVE InsertByKey(_, _)
\* x placed after every element of the sorted sequence s whose key is not greater
InsertByKey(s, x) ==
    IF s = << >> THEN << x >>
    ELSE IF KeyLess(sort_key(x), sort_key(Head(s))) THEN << x >> \o s
    ELSE << Head(s) >> \o InsertByKey(Tail(s), x)

\* sorted(columns): the labels in string order
SortColumns_as_strings(cols) == SortedLabels(Range(cols))

RECURSIVE SortColumns(_)
\* sorted(columns, key=sort_key): a stable sort
SortColumns(cols) ==
    IF cols = << >> THEN << >>
    ELSE InsertByKey(SortColumns(SubSeq(cols, 1, Len(cols) - 1)), cols[Len(cols)])

QUARTERLY_SHEETS == { "revenue_quarterly", "operating_profit_quarterly", "net_income_quarterly" }

\* sheets: a function from sheet names to DataFrames
merge_quarterly_data(existing_sheets, new_sheets) ==
    [sheet_name \in DOMAIN existing_sheets |->
        LET existing_df == existing_sheets[sheet_name]
        IN  IF sheet_name \notin QUARTERLY_SHEETS THEN existing_df
            ELSE IF sheet_name \notin DOMAIN new_sheets THEN existing_df
            ELSE IF IsEmpty(new_sheets[sheet_name]) THEN existing_df
            ELSE LET merged_df == sort_index(combine_first(existing_df, new_sheets[sheet_name]))
                 IN  DataFrame(merged_df.index, SortColumns(merged_df.columns), merged_df.data)]

\* f"{target_year}.{target_quarter}Q"
PeriodLabel(year, quarter) == IntToStr(year) \o << "." >> \o IntToStr(quarter) \o << "Q" >>

\* gap detection that reports every row whatever its cell holds
find_missing_companies_all_rows(sheets, label) ==
    IF "revenue_quarterly" \notin DOMAIN sheets THEN << >>
    ELSE sheets["revenue_quarterly"].index

\* gap detection that looks at every quarterly sheet of the file
find_missing_companies_any_sheet(sheets, label) ==
    IF "revenue_quarterly" \notin DOMAIN sheets THEN << >>
    ELSE SelectSeq(sheets["revenue_quarterly"].index,
                   LAMBDA company :
                       \E name \in DOMAIN sheets \cap QUARTERLY_SHEETS :
                           \/ label \notin Range(sheets[name].columns)
                           \/ company \notin Range(sheets[name].index)
                           \/ Cell(sheets[name], company, label) = NaN)

find_missing_companies(sheets, label) ==
    IF "revenue_quarterly" \notin DOMAIN sheets THEN << >>
    ELSE LET revenue_sheet == sheets["revenue_quarterly"]
         IN  IF label \notin Range(revenue_sheet.columns) THEN revenue_sheet.index
             ELSE SelectSeq(revenue_sheet.index,
                            LAMBDA company : Cell(revenue_sheet, company, label) = NaN)

\* (x / 1_000_000).round(0): the quotient rounded to the nearest integer, a tie
\* going to the even neighbour
UNIT_DIVISOR == 1000000

RoundedQuotient(v, d) ==
    LET q == v \div d
        r == v % d
    IN  IF 2 * r < d THEN q
        ELSE IF 2 * r > d THEN q + 1
        ELSE IF q % 2 = 0 THEN q ELSE q + 1

ToMillions(x) == IF x = None THEN NaN ELSE Some(RoundedQuotient(Get(x), UNIT_DIVISOR))

\* one long-format record of _collect_year_for_company
Record(company_name, year, q, m) ==
    [company |-> company_name, year |-> year, quarter |-> q,
     revenue |-> m.revenue, operating_profit |-> m.operating_profit,
     net_income |-> m.net_income]

\* df.pivot(index=company, columns=period, values=field) after the unit
\* conversion; the (company, period) pairs of data_list are distinct
Pivot(data_list, field) ==
    LET period(rec) == IntToStr(rec.year) \o << "." >> \o rec.quarter
        index   == SortedNames({ data_list[i].company : i \in 1..Len(data_list) })
        columns == SortedLabels({ period(data_list[i]) : i \in 1..Len(data_list) })
    IN  DataFrame(index, columns,
            [rc \in Range(index) \X Range(columns) |->
                IF \E i \in 1..Len(data_list) :
                      data_list[i].company = rc[1] /\ period(data_list[i]) = rc[2]
                THEN LET i == CHOOSE i \in 1..Len(data_list) :
                                data_list[i].company = rc[1] /\ period(data_list[i]) = rc[2]
                     IN  ToMillions(data_list[i][field])
                ELSE NaN])

_convert_to_wide_format(data_list) ==
    IF data_list = << >> THEN << >>
    ELSE [sheet_name \in QUARTERLY_SHEETS |->
            CASE sheet_name = "revenue_quarterly" -> Pivot(data_list, "revenue")
              [] sheet_name = "operating_profit_quarterly" -> Pivot(data_list, "operating_profit")
              [] sheet_name = "net_income_quarterly" -> Pivot(data_list, "net_income")]

\* the long-format records of one company and year: one per quarter, the
\* all-absent ones included (a FinancialMetrics object is always truthy)
DataList(company_name, year, quarterly) ==
    [i \in 1..4 |->
        Record(company_name, year, << DIGITS[i + 1], "Q" >>,
               quarterly.metrics_by_quarter[QUARTERS[i]])]

-----------------------------------------------------------------------------
(* State *)

VARIABLES
    pc,                 \* the position of the operation in progress
    statements,         \* the optional statements [1Q, Semi, 3Q, Annual] held so far
    metrics,            \* the QuarterlyMetrics calculate_quarterly_performance returned
    annual_values,      \* the values of the three annual rows made from metrics
    existing_sheets,    \* the sheets read from the file (merge's first argument)
    new_sheets,         \* the wide-format sheets of the collected data
    merged_sheets,      \* what merge_quarterly_data returned
    target_period,      \* << target_year, target_quarter >>
    missing_companies,  \* what find_missing_companies returned
    file_sheets,        \* the persisted file: its sheets, or None when there is no file
    max_api_calls,      \* self._max_api_calls
    current_api_calls,  \* self._current_api_calls
    idx,                \* the position of the collection loop in missing_companies
    collected_data,     \* the long-format records collected in this run
    total_fetches,      \* get_financial_statement calls made by this service instance
    fetched,            \* the companies get_financial_statement was called for in this run
    looked_up,          \* the companies get_code was called for in this run
    derived,            \* << company, statements >> of each derivation of this run
    limit_reached,      \* this run's loop met the ceiling and stopped
    outcome,            \* how the last run ended
    runs,               \* update_missing_quarters calls started on this instance
    config,             \* the keyword configuration file DataProcessingService is given
    keyword_lists,      \* the keyword lists of the constructed DataProcessingService
    api_responses,      \* what the DART API answers for each statement type
    use_cache,          \* self._use_cache of the adapter
    cache_files,        \* the cache file of each statement type that has one
    result              \* what get_financial_statement returned last

deriveVars == << statements, metrics, annual_values >>

reconVars == << existing_sheets, new_sheets, merged_sheets, target_period, missing_companies >>

loopVars == << file_sheets, max_api_calls, current_api_calls, idx, collected_data,
               total_fetches, fetched, looked_up, derived, limit_reached, outcome, runs >>

otherVars == << config, keyword_lists, api_responses, use_cache, cache_files, result >>

vars == << pc, deriveVars, reconVars, loopVars, otherVars >>

-----------------------------------------------------------------------------
(* Statements of the derivation inputs *)

AccountItem(account_nm, thstrm_amount) ==
    [account_nm |-> account_nm, thstrm_amount |-> thstrm_amount]

FinancialStatement(corp_name, is_cumulative, accounts) ==
    [corp_name |-> corp_name, is_cumulative |-> is_cumulative, accounts |-> accounts]

\* The line items of a statement with the three amounts rev, op and net, each
\* left out of the statement's figures when its flag is FALSE: the revenue line
\* then carries a dash, the operating-profit line is not there and the
\* net-income line has an empty amount.
Accounts(rev, op, net, has) ==
    << AccountItem(<< "su", "ik", "(", "mae", "chul", "aek", ")" >>,
                   IF has[1] THEN rev ELSE << "-" >>) >>
    \o (IF has[2] THEN << AccountItem(<< "yeong", "eop", "i", "ik", "(", "son", "sil", ")" >>, op) >>
        ELSE << >>)
    \o << AccountItem(<< "dang", "gi", "sun", "i", "ik" >>, IF has[3] THEN net ELSE << >>) >>

\* which of the three figures a statement carries
PRESENCE == { << TRUE, TRUE, TRUE >>, << FALSE, TRUE, TRUE >>, << TRUE, FALSE, TRUE >>,
              << TRUE, TRUE, FALSE >>, << FALSE, FALSE, FALSE >> }

StatementsWith(rev, op, net) ==
    { Some(FinancialStatement("Test Corp", cum, Accounts(rev, op, net, has))) :
        cum \in BOOLEAN, has \in PRESENCE }

Q1_STATEMENTS == { None } \cup StatementsWith(<< "1", "0", "0" >>, << "1", "0" >>, << "(", "5", ")" >>)

SEMI_STATEMENTS == { None } \cup StatementsWith(<< "2", "5", "0" >>, << "2", "5" >>, << "1", "5" >>)

Q3_STATEMENTS ==
    { None } \cup StatementsWith(<< "4", "5", "0" >>, << "4", "5" >>, << "2", "5" >>)
             \cup StatementsWith(<< "2", "0", "0" >>, << "2", "0" >>, << "1", "0" >>)

ANNUAL_STATEMENTS ==
    { None } \cup StatementsWith(<< "1", ",", "8", "0", "0" >>, << "8", "0" >>, << "4", "5" >>)

NoMetrics == [corp_name |-> "", metrics_by_quarter |-> << >>]

IdleLoop ==
    /\ file_sheets = None
    /\ max_api_calls = 0
    /\ current_api_calls = 0
    /\ idx = 0
    /\ collected_data = << >>
    /\ total_fetches = 0
    /\ fetched = {}
    /\ looked_up = {}
    /\ derived = << >>
    /\ limit_reached = FALSE
    /\ outcome = "none"
    /\ runs = 0

\* no service is being constructed and no adapter is in use
IdleOther ==
    /\ config = << >>
    /\ keyword_lists = << >>
    /\ api_responses = << >>
    /\ use_cache = FALSE
    /\ cache_files = << >>
    /\ result = << >>

IdleRecon ==
    /\ existing_sheets = << >>
    /\ new_sheets = << >>
    /\ merged_sheets = << >>
    /\ target_period = << 0, 0 >>
    /\ missing_companies = << >>

-----------------------------------------------------------------------------
(* The quarterly derivation applied to every combination of inputs *)

InitDerive ==
    /\ pc = "ready"
    /\ statements \in { << a, b, c, d >> : a \in Q1_STATEMENTS, b \in SEMI_STATEMENTS,
                                           c \in Q3_STATEMENTS, d \in ANNUAL_STATEMENTS }
    /\ metrics = NoMetrics
    /\ annual_values = << >>
    /\ IdleOther
    /\ IdleRecon
    /\ IdleLoop

Derive ==
    /\ UNCHANGED otherVars
    /\ pc = "ready"
    /\ metrics' = calculate_quarterly_performance(statements[1], statements[2],
                                                  statements[3], statements[4])
    /\ pc' = "derived"
    /\ UNCHANGED << statements, annual_values, reconVars, loopVars >>

\* an annual sum that is absent as soon as one quarter is absent
safe_sum_blocking(q_dict, key_attr) ==
    IF \E i \in 1..Len(QUARTERS) : q_dict[QUARTERS[i]][key_attr] = None THEN None
    ELSE Some(Get(q_dict["1Q"][key_attr]) + Get(q_dict["2Q"][key_attr])
                + Get(q_dict["3Q"][key_attr]) + Get(q_dict["4Q"][key_attr]))

RECURSIVE SumOf(_)
\* sum(vals)
SumOf(vals) == IF vals = << >> THEN 0 ELSE Head(vals) + SumOf(Tail(vals))

\* financial_collection_service.py, _append_to_results: the values of the
\* quarters that are not None, summed, or None when there is none
safe_sum(q_dict, key_attr) ==
    LET present(q) == q_dict[q][key_attr] # None
        vals == [i \in 1..Len(SelectSeq(QUARTERS, present)) |->
                    Get(q_dict[SelectSeq(QUARTERS, present)[i]][key_attr])]
    IN  IF vals # << >> THEN Some(SumOf(vals)) ELSE None

\* the three annual rows _append_to_results makes from the quarterly series
Aggregate ==
    /\ UNCHANGED otherVars
    /\ pc = "derived"
    /\ annual_values' = [key_attr \in METRICS |-> safe_sum(metrics.metrics_by_quarter, key_attr)]
    /\ pc' = "aggregated"
    /\ UNCHANGED << statements, metrics, reconVars, loopVars >>

NextDerive == Derive \/ Aggregate

SpecDerive == InitDerive /\ [][NextDerive]_vars

\* the names a statement may carry: the adapter stores "" when the response
\* has no corp_name
CORP_NAMES == { "", "A Corp", "B Corp" }

NAMED_STATEMENTS ==
    { None } \cup { Some(FinancialStatement(corp_name, FALSE,
                             Accounts(<< "1", "0" >>, << "2" >>, << "1" >>,
                                      << TRUE, TRUE, TRUE >>))) :
                      corp_name \in CORP_NAMES }

\* the derivation applied to statements that differ in their names
InitName ==
    /\ pc = "ready"
    /\ statements \in { << a, b, c, d >> : a \in NAMED_STATEMENTS, b \in NAMED_STATEMENTS,
                                           c \in NAMED_STATEMENTS, d \in NAMED_STATEMENTS }
    /\ metrics = NoMetrics
    /\ annual_values = << >>
    /\ IdleOther
    /\ IdleRecon
    /\ IdleLoop

SpecName == InitName /\ [][NextDerive]_vars

\* account names of a statement: equal to the last revenue keyword, containing
\* the first revenue keyword, equal to the third revenue keyword (and
\* containing the normalised second), and matching no keyword
ITEM_NAMES ==
    { << "mae", "chul" >>,
      << "sun", "mae", "chul", "aek" >>,
      << "yeong", "eop", "su", "ik" >>,
      << "won", "ga" >> }

\* the amount of the line item at position i: the number i, a dash, or text
\* that is no number
ItemAmount(i, kind) ==
    CASE kind = "number" -> IntToStr(i)
      [] kind = "dash" -> << "-" >>
      [] kind = "text" -> << "x" >>

MaxItems == 3

ACCOUNT_LISTS ==
    UNION { { [i \in 1..n |-> AccountItem(f[i][1], ItemAmount(i, f[i][2]))] :
                f \in [1..n -> ITEM_NAMES \X { "number", "dash", "text" }] } :
            n \in 0..MaxItems }

\* extract_metrics applied to one statement with every list of line items
InitMatch ==
    /\ pc = "ready"
    /\ statements \in { << Some(FinancialStatement("Test Corp", FALSE, accounts)),
                           None, None, None >> : accounts \in ACCOUNT_LISTS }
    /\ metrics = NoMetrics
    /\ annual_values = << >>
    /\ IdleOther
    /\ IdleRecon
    /\ IdleLoop

SpecMatch == InitMatch /\ [][NextDerive]_vars

-----------------------------------------------------------------------------
(* The reconciliation functions applied to matrices drawn from small pools *)

\* every frame with the given rows and columns whose cells are missing or v
Frames(index, columns, v) ==
    { DataFrame(index, columns, d) :
        d \in [Range(index) \X Range(columns) -> { NaN, Some(v) }] }

EmptyFrame == DataFrame(<< >>, << >>, << >>)

\* the frame with the given rows and columns whose cells all hold v
FullFrame(index, columns, v) ==
    DataFrame(index, columns, [rc \in Range(index) \X Range(columns) |-> Some(v)])

\* column orders a frame may have: quarters out of order with a plain year
\* label between them, and a three-digit year after a four-digit one
YEAR_COLUMNS == << PeriodLabel(2024, 2), IntToStr(2024), PeriodLabel(2023, 2) >>

SHORT_YEAR_COLUMNS == << PeriodLabel(2024, 1), PeriodLabel(999, 4) >>

\* a label whose quarter part has two digits, before two quarters
TWO_DIGIT_COLUMNS == << PeriodLabel(2024, 10), PeriodLabel(2023, 2), PeriodLabel(2024, 2) >>

\* frames a file holds: unsorted rows and columns, cells missing or 1
EXISTING_FRAMES ==
    Frames(<< "A" >>, << PeriodLabel(2024, 1) >>, 1)
        \cup Frames(<< "B", "A" >>, << PeriodLabel(2024, 2), PeriodLabel(2024, 1) >>, 1)
        \cup { FullFrame(<< "A" >>, YEAR_COLUMNS, 1), FullFrame(<< "A" >>, SHORT_YEAR_COLUMNS, 1) }

\* frames of newly collected data: cells missing or 2, and the empty frame
NEW_FRAMES ==
    Frames(<< "B" >>, << PeriodLabel(2024, 2) >>, 2)
        \cup Frames(<< "A", "B" >>, << PeriodLabel(2024, 1), PeriodLabel(2024, 2) >>, 2)
        \cup { EmptyFrame }
        \cup { FullFrame(<< "B" >>, YEAR_COLUMNS, 2),
               FullFrame(<< "A" >>, << PeriodLabel(999, 4), PeriodLabel(2024, 1) >>, 2),
               FullFrame(<< "B" >>, TWO_DIGIT_COLUMNS, 2) }

MERGED_SHEET_NAMES == { "revenue_quarterly", "revenue_annual" }

\* the new sheets offered to a merge of the sheet named name: that sheet and
\* one the file does not have, or only the latter
NewSheetsFor(name) ==
    { [sheet_name \in { name, "operating_profit_quarterly" } |-> df] : df \in NEW_FRAMES }
        \cup { [sheet_name \in { "operating_profit_quarterly" } |->
                   DataFrame(<< "B" >>, << PeriodLabel(2024, 2) >>,
                             [rc \in { << "B", PeriodLabel(2024, 2) >> } |-> Some(2)])] }

MaxMerges == 2

\* merged_sheets is the persisted matrix; every merge reads it back as
\* existing_sheets
InitMerge ==
    /\ pc = "ready"
    /\ \E name \in MERGED_SHEET_NAMES, df \in EXISTING_FRAMES :
          merged_sheets = [sheet_name \in { name } |-> df]
    /\ existing_sheets = << >>
    /\ new_sheets = << >>
    /\ target_period = << 0, 0 >>
    /\ missing_companies = << >>
    /\ statements = << >>
    /\ metrics = NoMetrics
    /\ annual_values = << >>
    /\ IdleOther
    /\ IdleLoop

Merge ==
    /\ UNCHANGED otherVars
    /\ runs < MaxMerges
    /\ \E name \in DOMAIN merged_sheets : new_sheets' \in NewSheetsFor(name)
    /\ existing_sheets' = merged_sheets
    /\ merged_sheets' = merge_quarterly_data(existing_sheets', new_sheets')
    /\ runs' = runs + 1
    /\ pc' = "merged"
    /\ UNCHANGED << deriveVars, target_period, missing_companies, file_sheets, max_api_calls,
                    current_api_calls, idx, collected_data, total_fetches, fetched,
                    looked_up, derived, limit_reached, outcome >>

NextMerge == Merge

SpecMerge == InitMerge /\ [][NextMerge]_vars

\* sheets a file holds, for gap detection
FIND_SHEETS ==
    { [sheet_name \in { name } |-> df] :
        name \in { "revenue_quarterly", "operating_profit_quarterly" },
        df \in EXISTING_FRAMES
                 \cup Frames(<< "C", "A", "B" >>, << PeriodLabel(2024, 1) >>, 1) }
        \cup { [sheet_name \in QUARTERLY_SHEETS |->
                   CASE sheet_name = "revenue_quarterly" -> rev
                     [] sheet_name = "operating_profit_quarterly" -> op
                     [] sheet_name = "net_income_quarterly" -> net] :
                 rev \in Frames(<< "A", "B" >>, << PeriodLabel(2024, 1) >>, 1),
                 op \in Frames(<< "A", "B" >>, << PeriodLabel(2024, 1) >>, 1),
                 net \in { FullFrame(<< "A", "B" >>, << PeriodLabel(2024, 1) >>, 1),
                           FullFrame(<< "A", "B" >>, << PeriodLabel(2023, 4) >>, 1) } }

TARGET_YEARS == { 2023, 2024 }

TARGET_QUARTERS == { 1, 2, 3, 4 }

InitFind ==
    /\ pc = "ready"
    /\ existing_sheets \in FIND_SHEETS
    /\ target_period \in TARGET_YEARS \X TARGET_QUARTERS
    /\ missing_companies = << >>
    /\ new_sheets = << >>
    /\ merged_sheets = << >>
    /\ statements = << >>
    /\ metrics = NoMetrics
    /\ annual_values = << >>
    /\ IdleOther
    /\ IdleLoop

Find ==
    /\ UNCHANGED otherVars
    /\ pc = "ready"
    /\ missing_companies' =
          find_missing_companies(existing_sheets, PeriodLabel(target_period[1], target_period[2]))
    /\ pc' = "found"
    /\ UNCHANGED << deriveVars, existing_sheets, new_sheets, merged_sheets, target_period,
                    loopVars >>

NextFind == Find

SpecFind == InitFind /\ [][NextFind]_vars

-----------------------------------------------------------------------------
(* incremental_update_service.py: update_missing_quarters on one service    *)
(* instance, run after run                                                  *)

\* the statements the retrieval collaborator has for a company: cumulative
\* reports in won
LOOP_STATEMENTS ==
    << Some(FinancialStatement("Corp", TRUE,
            Accounts(<< "2", ",", "5", "0", "0", ",", "0", "0", "0" >>,
                     << "5", "0", "0", ",", "0", "0", "0" >>,
                     << "(", "1", ",", "5", "0", "0", ",", "0", "0", "0", ")" >>,
                     << TRUE, TRUE, TRUE >>))),
       Some(FinancialStatement("Corp", TRUE,
            Accounts(<< "6", ",", "0", "0", "0", ",", "0", "0", "0" >>,
                     << "1", ",", "5", "0", "0", ",", "0", "0", "0" >>,
                     << "1", ",", "0", "0", "0", ",", "0", "0", "0" >>,
                     << TRUE, TRUE, TRUE >>))),
       Some(FinancialStatement("Corp", TRUE,
            Accounts(<< "9", ",", "0", "0", "0", ",", "0", "0", "0" >>,
                     << "3", ",", "0", "0", "0", ",", "0", "0", "0" >>,
                     << "2", ",", "0", "0", "0", ",", "0", "0", "0" >>,
                     << TRUE, TRUE, TRUE >>))),
       Some(FinancialStatement("Corp", TRUE,
            Accounts(<< "1", "4", ",", "5", "0", "0", ",", "0", "0", "0" >>,
                     << "4", ",", "0", "0", "0", ",", "0", "0", "0" >>,
                     << "3", ",", "0", "0", "0", ",", "0", "0", "0" >>,
                     << TRUE, TRUE, TRUE >>))) >>

\* a quarterly sheet of a file: an old column that is full and the column of
\* 2024.1Q with the cells a (company A) and b (company B)
LoopFrame(a, b) ==
    DataFrame(<< "A", "B" >>, << PeriodLabel(2023, 4), PeriodLabel(2024, 1) >>,
        [rc \in { "A", "B" } \X { PeriodLabel(2023, 4), PeriodLabel(2024, 1) } |->
            IF rc[2] = PeriodLabel(2023, 4) THEN Some(5)
            ELSE IF rc[1] = "A" THEN a ELSE b])

AnnualFrame ==
    DataFrame(<< "A", "B" >>, << << "2", "0", "2", "3" >> >>,
        [rc \in { "A", "B" } \X { << "2", "0", "2", "3" >> } |-> Some(20)])

\* what the file may hold when the service is constructed: nothing (no file),
\* sheets without the revenue sheet, or the three quarterly sheets and an
\* annual one
LOOP_FILES ==
    { None, Some([sheet_name \in { "operating_profit_quarterly" } |-> LoopFrame(NaN, NaN)]) }
        \cup { Some([sheet_name \in QUARTERLY_SHEETS \cup { "revenue_annual" } |->
                       CASE sheet_name = "revenue_quarterly" -> LoopFrame(a, b)
                         [] sheet_name = "operating_profit_quarterly" -> LoopFrame(NaN, NaN)
                         [] sheet_name = "net_income_quarterly" -> LoopFrame(Some(7), Some(7))
                         [] sheet_name = "revenue_annual" -> AnnualFrame]) :
                 a \in { Some(7) }, b \in { NaN, Some(7) } }

LOOP_TARGETS == { << 2024, 1 >>, << 2024, 3 >> }

MaxCeiling == 5

\* the ceilings a service is constructed with: none of the calls, fewer than one
\* company needs, more than one company needs
CEILINGS == { 0, 2, MaxCeiling }

MaxRuns == 2

Init ==
    /\ pc = "idle"
    /\ file_sheets \in LOOP_FILES
    /\ max_api_calls \in CEILINGS
    /\ current_api_calls = 0
    /\ idx = 0
    /\ collected_data = << >>
    /\ total_fetches = 0
    /\ fetched = {}
    /\ looked_up = {}
    /\ derived = << >>
    /\ limit_reached = FALSE
    /\ outcome = "none"
    /\ runs = 0
    /\ statements = << >>
    /\ metrics = NoMetrics
    /\ annual_values = << >>
    /\ IdleOther
    /\ IdleRecon

\* lines 67-88: the file is read and the companies missing the period are found
StartRun ==
    /\ UNCHANGED otherVars
    /\ pc = "idle"
    /\ runs < MaxRuns
    /\ runs' = runs + 1
    /\ target_period' \in LOOP_TARGETS
    /\ collected_data' = << >>
    /\ fetched' = {}
    /\ looked_up' = {}
    /\ derived' = << >>
    /\ limit_reached' = FALSE
    /\ new_sheets' = << >>
    /\ merged_sheets' = << >>
    /\ IF file_sheets = None
       THEN /\ existing_sheets' = << >>
            /\ missing_companies' = << >>
            /\ outcome' = "file_not_found"
            /\ idx' = 0
            /\ pc' = "idle"
       ELSE /\ existing_sheets' = Get(file_sheets)
            /\ missing_companies' =
                  find_missing_companies(existing_sheets',
                                         PeriodLabel(target_period'[1], target_period'[2]))
            /\ IF missing_companies' = << >>
               THEN outcome' = "no_missing" /\ idx' = 0 /\ pc' = "idle"
               ELSE outcome' = "running" /\ idx' = 1 /\ pc' = "check"
    /\ UNCHANGED << deriveVars, file_sheets, max_api_calls, current_api_calls, total_fetches >>

\* the ceiling test, with > written for >=
LimitReached_strict(calls, ceiling) == calls > ceiling

\* the ceiling test, with = written for >=
LimitReached_equal(calls, ceiling) == calls = ceiling

\* line 96
LimitReached(calls, ceiling) == calls >= ceiling

\* lines 94-99: the head of the collection loop
CheckLimit ==
    /\ UNCHANGED otherVars
    /\ pc = "check"
    /\ IF idx > Len(missing_companies) THEN pc' = "finish" /\ UNCHANGED limit_reached
       ELSE IF LimitReached(current_api_calls, max_api_calls)
            THEN pc' = "finish" /\ limit_reached' = TRUE
            ELSE pc' = "lookup" /\ UNCHANGED limit_reached
    /\ UNCHANGED << deriveVars, reconVars, file_sheets, max_api_calls, current_api_calls,
                    idx, collected_data, total_fetches, fetched, looked_up, derived,
                    outcome, runs >>

\* lines 103-108 and 117-119: get_code answers with a code, with None or by raising
Lookup ==
    /\ UNCHANGED otherVars
    /\ pc = "lookup"
    /\ looked_up' = looked_up \cup { missing_companies[idx] }
    /\ \E answer \in { "code", "not_found", "raise" } :
          IF answer = "code"
          THEN pc' = "fetch" /\ idx' = idx
          ELSE pc' = "check" /\ idx' = idx + 1
    /\ statements' = << >>
    /\ UNCHANGED << metrics, annual_values, reconVars, file_sheets, max_api_calls, current_api_calls,
                    collected_data, total_fetches, fetched, derived, limit_reached,
                    outcome, runs >>

\* a counter that leaves out the retrievals answered from the cache
CountedCalls_skip_cache(calls, answer) == IF answer = "cache" THEN calls ELSE calls + 1

\* line 184
CountedCalls(calls, answer) == calls + 1

\* lines 174-188 and 117-119: one retrieval of _collect_year_for_company; the
\* collaborator answers from its cache, from the API, with None or by raising,
\* and a raise ends the company's collection
Fetch ==
    /\ UNCHANGED otherVars
    /\ pc = "fetch"
    /\ total_fetches' = total_fetches + 1
    /\ fetched' = fetched \cup { missing_companies[idx] }
    /\ \E answer \in { "cache", "api", "unavailable", "raise" } :
          /\ current_api_calls' = CountedCalls(current_api_calls, answer)
          /\ IF answer = "raise"
             THEN statements' = << >> /\ idx' = idx + 1 /\ pc' = "check"
             ELSE /\ statements' =
                        Append(statements,
                               IF answer = "unavailable" THEN None
                               ELSE LOOP_STATEMENTS[Len(statements) + 1])
                  /\ idx' = idx
                  /\ pc' = IF Len(statements) + 1 = 4 THEN "derive" ELSE "fetch"
    /\ UNCHANGED << metrics, annual_values, reconVars, file_sheets, max_api_calls, collected_data,
                    looked_up, derived, limit_reached, outcome, runs >>

\* lines 190-210 and 113-115: the quarterly records of the company are derived
\* and added to the collected data
DeriveCompany ==
    /\ UNCHANGED otherVars
    /\ pc = "derive"
    /\ metrics' = calculate_quarterly_performance(statements[1], statements[2],
                                                  statements[3], statements[4])
    /\ collected_data' =
          collected_data \o DataList(missing_companies[idx], target_period[1], metrics')
    /\ derived' = Append(derived, << missing_companies[idx], statements >>)
    /\ statements' = << >>
    /\ idx' = idx + 1
    /\ pc' = "check"
    /\ UNCHANGED << annual_values, reconVars, file_sheets, max_api_calls, current_api_calls,
                    total_fetches, fetched, looked_up, limit_reached, outcome, runs >>

\* persistence that treats a run cut short by the ceiling as a failure
HasCollected_unless_cut(data, cut) == data # << >> /\ ~cut

\* persistence that does not look at what was collected
HasCollected_always(data, cut) == TRUE

\* line 121
HasCollected(data, cut) == data # << >>

\* lines 121-136: the collected data is converted, merged and saved
Finish ==
    /\ UNCHANGED otherVars
    /\ pc = "finish"
    /\ IF HasCollected(collected_data, limit_reached)
       THEN /\ new_sheets' = _convert_to_wide_format(collected_data)
            /\ merged_sheets' = merge_quarterly_data(existing_sheets, new_sheets')
            /\ file_sheets' = Some(merged_sheets')
            /\ outcome' = "saved"
       ELSE /\ outcome' = "no_data"
            /\ UNCHANGED << new_sheets, merged_sheets, file_sheets >>
    /\ pc' = "idle"
    /\ UNCHANGED << deriveVars, existing_sheets, target_period, missing_companies,
                    max_api_calls, current_api_calls, idx, collected_data, total_fetches,
                    fetched, looked_up, derived, limit_reached, runs >>

Next == StartRun \/ CheckLimit \/ Lookup \/ Fetch \/ DeriveCompany \/ Finish

Spec == Init /\ [][Next]_vars

-----------------------------------------------------------------------------
(* Claims about the reconciliation functions *)

AllNames(sheets_a, sheets_b, name) ==
    (IF name \in DOMAIN sheets_a THEN Range(sheets_a[name].index) ELSE {})
        \cup (IF name \in DOMAIN sheets_b THEN Range(sheets_b[name].index) ELSE {})

AllLabels(sheets_a, sheets_b, name) ==
    (IF name \in DOMAIN sheets_a THEN Range(sheets_a[name].columns) ELSE {})
        \cup (IF name \in DOMAIN sheets_b THEN Range(sheets_b[name].columns) ELSE {})

\* C1: a merge never changes a cell that holds a value.  In every step, each
\* cell of each quarterly sheet of the persisted matrix that is not missing
\* before the merge holds the same value after it, whatever the new sheets
\* contain; the merged matrix is what the next merge reads, so a cell keeps
\* its value through any sequence of merges.
C1_MergeKeepsPresentCells ==
    [][ \A name \in DOMAIN merged_sheets \cap QUARTERLY_SHEETS :
          \A r \in Range(merged_sheets[name].index), c \in Range(merged_sheets[name].columns) :
             Cell(merged_sheets[name], r, c) # NaN =>
                /\ name \in DOMAIN merged_sheets'
                /\ Cell(merged_sheets'[name], r, c) = Cell(merged_sheets[name], r, c) ]_vars

\* a merge has run on a cell that held a value for which the new sheet held a
\* different one
C1_Witness ==
    /\ pc = "merged"
    /\ \E name \in DOMAIN existing_sheets \cap DOMAIN new_sheets \cap QUARTERLY_SHEETS :
          \E r \in Range(existing_sheets[name].index), c \in Range(existing_sheets[name].columns) :
             /\ Cell(existing_sheets[name], r, c) # NaN
             /\ Cell(new_sheets[name], r, c) # NaN
             /\ Cell(new_sheets[name], r, c) # Cell(existing_sheets[name], r, c)
             /\ Cell(merged_sheets[name], r, c) = Cell(existing_sheets[name], r, c)

C3_FindMissingExact ==
    (pc = "found" /\ "revenue_quarterly" \in DOMAIN existing_sheets) =>
        LET matrix == existing_sheets["revenue_quarterly"]
            label  == PeriodLabel(target_period[1], target_period[2])
        IN  IF label \notin Range(matrix.columns)
            THEN missing_companies = matrix.index
            ELSE /\ Range(missing_companies) =
                        { r \in Range(matrix.index) : matrix.data[<< r, label >>] = NaN }
                 /\ Len(missing_companies) = Cardinality(Range(missing_companies))

\* gap detection has run on a column where one entity has a value and another
\* has none
C3_Witness ==
    /\ pc = "found"
    /\ "revenue_quarterly" \in DOMAIN existing_sheets
    /\ LET matrix == existing_sheets["revenue_quarterly"]
           label  == PeriodLabel(target_period[1], target_period[2])
       IN  /\ label \in Range(matrix.columns)
           /\ \E r \in Range(matrix.index) :
                 matrix.data[<< r, label >>] # NaN /\ r \notin Range(missing_companies)
           /\ \E r \in Range(matrix.index) :
                 matrix.data[<< r, label >>] = NaN /\ r \in Range(missing_companies)

-----------------------------------------------------------------------------
(* Claims about the quarterly derivation *)

NoFigures == FinancialMetrics(None, None, None)

\* a - b on optional numbers, absent when either is absent
Minus(a, b) == IF a = None \/ b = None THEN None ELSE Some(Get(a) - Get(b))

\* C9: 2Q is all-absent when the half-year statement is absent; it is
\* extract(H1) - extract(Q1) per metric, absent when either operand is, when
\* the half-year statement is cumulative and the Q1 statement is present; in
\* every other case it is extract(H1) unchanged.
C9_SecondQuarter ==
    pc = "derived" =>
        LET q1_stmt   == statements[1]
            semi_stmt == statements[2]
            q2        == metrics.metrics_by_quarter["2Q"]
        IN  IF semi_stmt = None THEN q2 = NoFigures
            ELSE IF Get(semi_stmt).is_cumulative /\ q1_stmt # None
                 THEN \A m \in METRICS :
                         q2[m] = Minus(extract_metrics(semi_stmt)[m], extract_metrics(q1_stmt)[m])
                 ELSE q2 = extract_metrics(semi_stmt)

\* a cumulative half-year of 250 after a first quarter of 100 gave a second
\* quarter of 150, with a metric absent because the first quarter lacks it
C9_Witness ==
    /\ pc = "derived"
    /\ statements[1] # None /\ statements[2] # None
    /\ Get(statements[2]).is_cumulative
    /\ metrics.metrics_by_quarter["2Q"].revenue = Some(150)
    /\ extract_metrics(statements[2]).operating_profit # None
    /\ metrics.metrics_by_quarter["2Q"].operating_profit = None

\* C10: 3Q is all-absent when the Q3 statement is absent; it is
\* extract(Q3) - extract(H1) per metric, absent when either operand is, when
\* the Q3 statement is cumulative and the half-year statement is present; in
\* every other case it is extract(Q3) unchanged.
C10_ThirdQuarter ==
    pc = "derived" =>
        LET semi_stmt == statements[2]
            q3_stmt   == statements[3]
            q3        == metrics.metrics_by_quarter["3Q"]
        IN  IF q3_stmt = None THEN q3 = NoFigures
            ELSE IF Get(q3_stmt).is_cumulative /\ semi_stmt # None
                 THEN \A m \in METRICS :
                         q3[m] = Minus(extract_metrics(q3_stmt)[m], extract_metrics(semi_stmt)[m])
                 ELSE q3 = extract_metrics(q3_stmt)

\* a cumulative third-quarter statement of 450 after a half-year of 250 gave a
\* third quarter of 200, with a metric absent because the half-year lacks it
C10_Witness ==
    /\ pc = "derived"
    /\ statements[2] # None /\ statements[3] # None
    /\ Get(statements[3]).is_cumulative
    /\ metrics.metrics_by_quarter["3Q"].revenue = Some(200)
    /\ extract_metrics(statements[3]).net_income # None
    /\ metrics.metrics_by_quarter["3Q"].net_income = None


-----------------------------------------------------------------------------
(* Claims about the budgeted collection loop *)

TargetLabel == PeriodLabel(target_period[1], target_period[2])

\* the company is a row of the revenue sheet read in this run and its cell in
\* the target period's column is absent or empty
ReportedMissing(company) ==
    /\ "revenue_quarterly" \in DOMAIN existing_sheets
    /\ LET df == existing_sheets["revenue_quarterly"]
       IN  /\ company \in Range(df.index)
           /\ \/ TargetLabel \notin Range(df.columns)
              \/ Cell(df, company, TargetLabel) = NaN

\* C4: in every run, statements are retrieved only for companies that miss the
\* target period in the revenue sheet that was read: never for a company whose
\* cell holds a value, and never at all when no company is missing.
C4_RetrievalOnlyForMissing ==
    /\ \A company \in fetched : ReportedMissing(company)
    /\ outcome \in { "no_missing", "file_not_found" } => fetched = {} /\ looked_up = {}

\* a run that saved figures for B and never retrieved a statement for A, whose
\* cell was filled
C4_Witness ==
    /\ pc = "idle"
    /\ outcome = "saved"
    /\ fetched = { "B" }
    /\ "revenue_quarterly" \in DOMAIN existing_sheets
    /\ Cell(existing_sheets["revenue_quarterly"], "A", TargetLabel) # NaN

\* C5: the call counter is at most the ceiling in every state of the loop.
C5_CounterWithinCeiling == current_api_calls <= max_api_calls

\* C6: when the head of the loop finds the counter at or above the ceiling with
\* a company still to do, the loop is left for the end of the run, and from there
\* the run ends without any further lookup or retrieval.
C6_LoopStopsAtCeiling ==
    [][ /\ ( pc = "check" /\ idx <= Len(missing_companies)
                /\ current_api_calls >= max_api_calls )
            => ( pc' = "finish" /\ limit_reached'
                   /\ UNCHANGED << looked_up, fetched, total_fetches, idx >> )
        /\ pc = "finish"
            => ( pc' = "idle" /\ UNCHANGED << looked_up, fetched, total_fetches, idx >> )
      ]_vars

\* the loop was left at the ceiling after a company's retrievals, with a company
\* of the missing list never looked up
C6_Witness ==
    /\ pc = "finish"
    /\ limit_reached
    /\ fetched # {}
    /\ idx <= Len(missing_companies)
    /\ missing_companies[idx] \notin looked_up \cup fetched

\* the records of the companies derived in this run, recomputed from the
\* statements each derivation was given
RECURSIVE RecordsOf(_)
RecordsOf(d) ==
    IF d = << >> THEN << >>
    ELSE DataList(Head(d)[1], target_period[1],
                  calculate_quarterly_performance(Head(d)[2][1], Head(d)[2][2],
                                                  Head(d)[2][3], Head(d)[2][4]))
            \o RecordsOf(Tail(d))

\* C7: a run that was cut short by the ceiling after at least one company was
\* derived ends normally, having saved the existing sheets merged with exactly
\* the records of the derived companies.
C7_PartialSuccess ==
    ( pc = "idle" /\ limit_reached /\ derived # << >> )
        => /\ outcome = "saved"
           /\ merged_sheets =
                 merge_quarterly_data(existing_sheets,
                                      _convert_to_wide_format(RecordsOf(derived)))
           /\ file_sheets = Some(merged_sheets)

\* a run cut short with a company left over has saved a filled cell for the
\* company it derived
C7_Witness ==
    /\ pc = "idle"
    /\ limit_reached
    /\ outcome = "saved"
    /\ Len(derived) = 1
    /\ idx <= Len(missing_companies)
    /\ Cell(Get(file_sheets)["revenue_quarterly"], derived[1][1], TargetLabel) # NaN

\* C8: the call counter equals the number of retrievals attempted, whatever
\* the collaborator answered.
C8_CounterCountsRetrievals == current_api_calls = total_fetches

\* the second run has ended; in it one company was derived with a statement
\* unavailable and the retrieval of another company raised
C8_Witness ==
    /\ pc = "idle"
    /\ runs = 2
    /\ current_api_calls > 4
    /\ \E company \in fetched : \A i \in 1..Len(derived) : derived[i][1] # company
    /\ \E i \in 1..Len(derived) : \E q \in 1..4 : derived[i][2][q] = None

\* a + b on optional numbers, absent when either is absent
Plus(a, b) == IF a = None \/ b = None THEN None ELSE Some(Get(a) + Get(b))

\* C11: 4Q is all-absent when the annual statement or cumulative-through-Q3 is
\* absent, and otherwise extract(Annual) - cumulative-through-Q3 per metric,
\* absent when an operand is; cumulative-through-Q3 is extract(Q3) for a
\* cumulative Q3 statement, else extract(H1) + extract(Q3) per metric when both
\* statements are present, else absent.
C11_FourthQuarter ==
    pc = "derived" =>
        LET semi_stmt   == statements[2]
            q3_stmt     == statements[3]
            annual_stmt == statements[4]
            cumulative  ==
                IF q3_stmt # None /\ Get(q3_stmt).is_cumulative
                THEN Some(extract_metrics(q3_stmt))
                ELSE IF semi_stmt # None /\ q3_stmt # None
                     THEN Some([m \in METRICS |->
                                   Plus(extract_metrics(semi_stmt)[m],
                                        extract_metrics(q3_stmt)[m])])
                     ELSE None
            q4          == metrics.metrics_by_quarter["4Q"]
        IN  IF annual_stmt = None \/ cumulative = None THEN q4 = NoFigures
            ELSE \A m \in METRICS :
                    q4[m] = Minus(extract_metrics(annual_stmt)[m], Get(cumulative)[m])

STATEMENT_POOLS == << Q1_STATEMENTS, SEMI_STATEMENTS, Q3_STATEMENTS, ANNUAL_STATEMENTS >>

\* C12: the derived value of a metric in every quarter is the same for all
\* inputs that agree on the statements' presence, their is_cumulative flags and
\* the values of that metric, whatever the sibling metrics are.
C12_MetricsIndependent ==
    pc = "derived" =>
        LET AlikeIn(i, m) ==
                { other \in STATEMENT_POOLS[i] :
                    /\ (other = None) <=> (statements[i] = None)
                    /\ other # None =>
                          /\ Get(other).is_cumulative = Get(statements[i]).is_cumulative
                          /\ extract_metrics(other)[m] = extract_metrics(statements[i])[m] }
        IN  \A m \in METRICS :
                \A a \in AlikeIn(1, m), b \in AlikeIn(2, m),
                   c \in AlikeIn(3, m), d \in AlikeIn(4, m) :
                    \A q \in { "1Q", "2Q", "3Q", "4Q" } :
                        calculate_quarterly_performance(a, b, c, d).metrics_by_quarter[q][m]
                            = metrics.metrics_by_quarter[q][m]

AmountOf(v) ==
    IF v = None THEN << "-" >>
    ELSE IF Get(v) < 0 THEN << "(" >> \o IntToStr(-Get(v)) \o << ")" >>
    ELSE IntToStr(Get(v))

\* report kinds and periods a statement may carry, as (month, day) pairs
REPORT_PERIODS ==
    { [reprt_type |-> "ANNUAL", start_date |-> << 1, 1 >>, end_date |-> << 12, 31 >>],
      [reprt_type |-> "Q3", start_date |-> << 7, 1 >>, end_date |-> << 9, 30 >>] }

\* a statement with the presence, flag, name and extracted figures of stmt, but
\* with other line items and with the report kind and dates of period
Restated(stmt, period) ==
    IF stmt = None THEN None
    ELSE LET figures == extract_metrics(stmt)
         IN  Some([corp_name |-> Get(stmt).corp_name,
                   is_cumulative |-> Get(stmt).is_cumulative,
                   accounts |->
                      << AccountItem(<< "dang", "gi", "sun", "i", "ik" >>,
                                     AmountOf(figures.net_income)),
                         AccountItem(<< "mae", "chul", "aek" >>, AmountOf(figures.revenue)),
                         AccountItem(<< "yeong", "eop", "i", "ik" >>,
                                     AmountOf(figures.operating_profit)) >>,
                   reprt_type |-> period.reprt_type,
                   start_date |-> period.start_date,
                   end_date |-> period.end_date])

\* C14: inputs with the same presence pattern, the same is_cumulative flags and
\* the same extracted figures give the same quarterly series, whatever their
\* report kinds, dates and line items; and a half-year statement that is not
\* cumulative gives 2Q its own figures, with or without a first quarter.
C14_OnlyTheFlagDecides ==
    pc = "derived" =>
        /\ \A period \in REPORT_PERIODS :
              calculate_quarterly_performance(
                  Restated(statements[1], period), Restated(statements[2], period),
                  Restated(statements[3], period), Restated(statements[4], period)) = metrics
        /\ ( statements[2] # None /\ ~Get(statements[2]).is_cumulative )
              => metrics.metrics_by_quarter["2Q"] = extract_metrics(statements[2])

\* a half-year of 250 that is not cumulative, after a first quarter of 100,
\* gave a second quarter of 250
C14_Witness ==
    /\ pc = "derived"
    /\ statements[1] # None /\ statements[2] # None
    /\ ~Get(statements[2]).is_cumulative
    /\ extract_metrics(statements[1]).revenue = Some(100)
    /\ metrics.metrics_by_quarter["2Q"].revenue = Some(250)

\* C15: the annual value of a metric is the sum of the derived quarter values
\* that are present, absent only when all four are absent, whereas the
\* subtraction and the addition of the quarter derivation are absent as soon as
\* one operand is.
C15_AnnualSumSkipsAbsent ==
    pc = "aggregated" =>
        \A m \in METRICS :
            LET quarter(q) == metrics.metrics_by_quarter[q][m]
                value(q)   == IF quarter(q) = None THEN 0 ELSE Get(quarter(q))
            IN  /\ annual_values[m] =
                      ( IF \A q \in { "1Q", "2Q", "3Q", "4Q" } : quarter(q) = None THEN None
                        ELSE Some(value("1Q") + value("2Q") + value("3Q") + value("4Q")) )
                /\ \A p, q \in { "1Q", "2Q", "3Q", "4Q" } :
                      IF quarter(p) = None \/ quarter(q) = None
                      THEN /\ _safe_sub(quarter(p), quarter(q)) = None
                           /\ _safe_add(quarter(p), quarter(q)) = None
                      ELSE /\ _safe_sub(quarter(p), quarter(q)) = Some(value(p) - value(q))
                           /\ _safe_add(quarter(p), quarter(q)) = Some(value(p) + value(q))

\* the revenue of the first quarter is absent, the other three are present,
\* and the annual revenue is the sum of those three
C15_Witness ==
    /\ pc = "aggregated"
    /\ metrics.metrics_by_quarter["1Q"].revenue = None
    /\ metrics.metrics_by_quarter["2Q"].revenue # None
    /\ metrics.metrics_by_quarter["3Q"].revenue # None
    /\ metrics.metrics_by_quarter["4Q"].revenue # None
    /\ annual_values.revenue =
          Some(Get(metrics.metrics_by_quarter["2Q"].revenue)
                 + Get(metrics.metrics_by_quarter["3Q"].revenue)
                 + Get(metrics.metrics_by_quarter["4Q"].revenue))

-----------------------------------------------------------------------------
(* Claims about the name of the series *)

\* the positions of the statements that are there
PresentAt == { i \in 1..4 : statements[i] # None }

\* the positions of the statements that are there and carry a name
NamedAt == { i \in PresentAt : Get(statements[i]).corp_name # "" }

\* C16 as stated: the name of the series is the name of the first statement
\* that is present, in the order Q1, H1, Q3, Annual, whatever that name is, and
\* it is empty when no statement is present.
C16_NameOfFirstStatement ==
    pc = "derived" =>
        metrics.corp_name =
            ( IF PresentAt = {} THEN ""
              ELSE Get(statements[CHOOSE i \in PresentAt : \A j \in PresentAt : i <= j]).corp_name )

\* C16 amended: the name of the series is the name of the first statement, in
\* the order Q1, H1, Q3, Annual, that is present and has a name that is not
\* empty, and it is the empty string when there is no such statement.
C16_NameOfFirstNamedStatement ==
    pc = "derived" =>
        metrics.corp_name =
            ( IF NamedAt = {} THEN ""
              ELSE Get(statements[CHOOSE i \in NamedAt : \A j \in NamedAt : i <= j]).corp_name )

\* the first-quarter statement has no name, the half-year is absent, and the
\* series took the name of the third-quarter statement, not that of the annual
C16_Witness ==
    /\ pc = "derived"
    /\ statements[1] # None /\ Get(statements[1]).corp_name = ""
    /\ statements[2] = None
    /\ statements[3] # None /\ Get(statements[3]).corp_name = "A Corp"
    /\ statements[4] # None /\ Get(statements[4]).corp_name = "B Corp"
    /\ metrics.corp_name = "A Corp"

-----------------------------------------------------------------------------
(* Claims about the account matcher *)

\* the keyword list extract_metrics uses for each metric
KeywordsOf(m) ==
    CASE m = "revenue" -> REVENUE_KEYWORDS
      [] m = "operating_profit" -> OP_PROFIT_KEYWORDS
      [] m = "net_income" -> NET_INCOME_KEYWORDS

\* the line items whose normalised name equals the normalised keyword
ExactAt(accounts, keyword) ==
    { a \in 1..Len(accounts) : Normalize(accounts[a].account_nm) = Normalize(keyword) }

\* the line items whose normalised name contains the normalised keyword
PartialAt(accounts, keyword) ==
    { a \in 1..Len(accounts) :
        IsSubstring(Normalize(keyword), Normalize(accounts[a].account_nm)) }

Least(S) == CHOOSE x \in S : \A y \in S : x <= y

\* C17: the line item that decides is the earliest item equal to the earliest
\* keyword that has an equal item, whatever items contain earlier keywords; when
\* no item equals a keyword, it is the earliest item containing the earliest
\* keyword that is contained in an item; the result is the parse of that item's
\* amount, and it is absent when no keyword matches in either pass.
C17_ExactPassBeforePartialPass ==
    pc = "derived" =>
        \A m \in METRICS :
            LET accounts == Get(statements[1]).accounts
                keywords == KeywordsOf(m)
                exact    == { k \in 1..Len(keywords) : ExactAt(accounts, keywords[k]) # {} }
                partial  == { k \in 1..Len(keywords) : PartialAt(accounts, keywords[k]) # {} }
                chosen   ==
                    IF exact # {} THEN Least(ExactAt(accounts, keywords[Least(exact)]))
                    ELSE IF partial # {} THEN Least(PartialAt(accounts, keywords[Least(partial)]))
                    ELSE 0
            IN  metrics.metrics_by_quarter["1Q"][m] =
                    ( IF chosen = 0 THEN None
                      ELSE _parse_amount(accounts[chosen].thstrm_amount) )

\* C18: when a line item equals a keyword, the result is the parse of the
\* amount of the first such item, absent when that amount is a dash or no
\* number, and no other line item decides.
C18_FirstExactHitDecides ==
    pc = "derived" =>
        \A m \in METRICS :
            LET accounts == Get(statements[1]).accounts
                keywords == KeywordsOf(m)
                exact    == { k \in 1..Len(keywords) : ExactAt(accounts, keywords[k]) # {} }
            IN  exact # {} =>
                    LET hit == accounts[Least(ExactAt(accounts, keywords[Least(exact)]))]
                    IN  /\ metrics.metrics_by_quarter["1Q"][m] = _parse_amount(hit.thstrm_amount)
                        /\ hit.thstrm_amount \in { << "-" >>, << >>, << "x" >> }
                              => metrics.metrics_by_quarter["1Q"][m] = None

-----------------------------------------------------------------------------
(* Claims about the order of the merged columns *)

\* the years of the labels in the pools
LABEL_YEARS == { 999, 2023, 2024 }

\* the label is "<year>.<n>Q" with n in 1..4
IsQuarterLabel(label) == \E y \in LABEL_YEARS, n \in 1..4 : label = PeriodLabel(y, n)

\* the (year, quarter) a quarter label names
QuarterOf(label) ==
    CHOOSE yn \in LABEL_YEARS \X (1..4) : label = PeriodLabel(yn[1], yn[2])

\* no quarter label of cols stands before a quarter label of an earlier period
QuartersAscending(cols) ==
    \A i, j \in 1..Len(cols) :
        ( i < j /\ IsQuarterLabel(cols[i]) /\ IsQuarterLabel(cols[j]) )
            => \/ QuarterOf(cols[i])[1] < QuarterOf(cols[j])[1]
               \/ /\ QuarterOf(cols[i])[1] = QuarterOf(cols[j])[1]
                  /\ QuarterOf(cols[i])[2] <= QuarterOf(cols[j])[2]

\* C19 as stated: after merge_quarterly_data the quarter columns of every
\* quarterly sheet of the result are in ascending (year, quarter) order,
\* whatever the column order of the existing and the new sheets.
C19_QuarterColumnsAscending ==
    pc = "merged" =>
        \A name \in DOMAIN merged_sheets \cap QUARTERLY_SHEETS :
            QuartersAscending(merged_sheets[name].columns)

\* C19 amended: after merge_quarterly_data the quarter columns of every
\* quarterly sheet for which the new data holds a sheet that is not empty are
\* in ascending (year, quarter) order, whatever the column order of the
\* existing and the new sheet.
C19_MergedQuarterColumnsAscending ==
    pc = "merged" =>
        \A name \in DOMAIN existing_sheets \cap DOMAIN new_sheets \cap QUARTERLY_SHEETS :
            ~IsEmpty(new_sheets[name]) => QuartersAscending(merged_sheets[name].columns)

\* the file had 2024.1Q before 999.4Q, the new sheet was not empty, and the
\* merged sheet has 999.4Q before 2024.1Q
C19_Witness ==
    /\ pc = "merged"
    /\ \E name \in DOMAIN existing_sheets \cap DOMAIN new_sheets \cap QUARTERLY_SHEETS :
          /\ existing_sheets[name].columns = SHORT_YEAR_COLUMNS
          /\ ~IsEmpty(new_sheets[name])
          /\ \E i \in 1..Len(merged_sheets[name].columns) - 1 :
                /\ merged_sheets[name].columns[i] = PeriodLabel(999, 4)
                /\ merged_sheets[name].columns[i + 1] = PeriodLabel(2024, 1)

\* C20: in a sheet that went through the column sort, a plain year label Y
\* has the key (Y, 0): every quarter column of an earlier year stands before it
\* and every quarter column of year Y stands after it.
C20_PlainYearBeforeItsQuarters ==
    pc = "merged" =>
        \A name \in DOMAIN existing_sheets \cap DOMAIN new_sheets \cap QUARTERLY_SHEETS :
            ~IsEmpty(new_sheets[name]) =>
                LET cols == merged_sheets[name].columns
                IN  \A i, j \in 1..Len(cols), y \in LABEL_YEARS :
                        ( cols[i] = IntToStr(y) /\ IsQuarterLabel(cols[j]) )
                            => /\ sort_key(cols[i]) = << y, 0 >>
                               /\ QuarterOf(cols[j])[1] < y => j < i
                               /\ QuarterOf(cols[j])[1] = y => i < j

\* C21: in a sheet that went through the column sort, every label that is
\* neither "<year>.<n>Q" with n in 1..4 nor a plain year has the key (0, 0)
\* and stands before every well-formed label.
C21_MalformedLabelsSortFirst ==
    pc = "merged" =>
        \A name \in DOMAIN existing_sheets \cap DOMAIN new_sheets \cap QUARTERLY_SHEETS :
            ~IsEmpty(new_sheets[name]) =>
                LET cols == merged_sheets[name].columns
                    IsWellFormedLabel(label) ==
                        IsQuarterLabel(label) \/ \E y \in LABEL_YEARS : label = IntToStr(y)
                IN  \A i, j \in 1..Len(cols) :
                        ~IsWellFormedLabel(cols[i]) =>
                            /\ sort_key(cols[i]) = << 0, 0 >>
                            /\ IsWellFormedLabel(cols[j]) => i < j

-----------------------------------------------------------------------------
(* Claims about failures and the budget of the collection loop *)

\* C22: a retrieval that raises is taken as an absent statement: every
\* retrieval attempt of a company, whatever its outcome, adds one statement
\* (absent or not) for the next period kind, the collection goes on with the
\* same company until its four period kinds were attempted once each, and the
\* company's records are then derived.
C22_ErrorIsAbsence ==
    [][ pc = "fetch" =>
            /\ Len(statements) < 4
            /\ Len(statements') = Len(statements) + 1
            /\ idx' = idx
            /\ pc' = IF Len(statements') = 4 THEN "derive" ELSE "fetch" ]_vars

-----------------------------------------------------------------------------
(* data_processing_service.py: construction of DataProcessingService *)

CONFIG_KEYS == { "revenue", "operating_profit", "net_income" }

\* lines 57-59: the built-in lists
DEFAULT_KEYWORDS ==
    [revenue |-> REVENUE_KEYWORDS, operating_profit |-> OP_PROFIT_KEYWORDS,
     net_income |-> NET_INCOME_KEYWORDS]

\* dict.get(key, default)
DictGet(d, key, default) == IF key \in DOMAIN d THEN d[key] ELSE default

\* the file at config_path: missing, not parseable as TOML, or a document
\* with or without the account_keywords table; the table holds any of the
\* three keys, each with a list that is empty or has one or two keywords
CONFIG_FILES ==
    LET lists  == { << >>, << << "mae", "chul" >> >>,
                    << << "won", "ga" >>, << "mae", "chul", "aek" >> >> }
        tables == UNION { [S -> lists] : S \in SUBSET CONFIG_KEYS }
    IN  { [exists |-> FALSE, valid |-> FALSE, toml |-> << >>],
          [exists |-> TRUE, valid |-> FALSE, toml |-> << >>],
          [exists |-> TRUE, valid |-> TRUE, toml |-> << >>] }
            \cup { [exists |-> TRUE, valid |-> TRUE, toml |-> [account_keywords |-> t]] :
                     t \in tables }

\* lines 47-59 for a file tomllib can load, or no file
LoadKeywords(file) ==
    IF file.exists
    THEN LET kw == DictGet(file.toml, "account_keywords", << >>)
         IN  [revenue |-> DictGet(kw, "revenue", << >>),
              operating_profit |-> DictGet(kw, "operating_profit", << >>),
              net_income |-> DictGet(kw, "net_income", << >>)]
    ELSE DEFAULT_KEYWORDS

InitConstruct ==
    /\ pc = "ready"
    /\ config \in CONFIG_FILES
    /\ keyword_lists = << >>
    /\ statements = << >>
    /\ metrics = NoMetrics
    /\ annual_values = << >>
    /\ api_responses = << >>
    /\ use_cache = FALSE
    /\ cache_files = << >>
    /\ result = << >>
    /\ IdleRecon
    /\ IdleLoop

\* DataProcessingService(config_path): tomllib.load raises on a file that is
\* not TOML and the constructor does not catch it
Construct ==
    /\ pc = "ready"
    /\ IF config.exists /\ ~config.valid
       THEN pc' = "raised" /\ UNCHANGED keyword_lists
       ELSE pc' = "constructed" /\ keyword_lists' = LoadKeywords(config)
    /\ UNCHANGED << config, deriveVars, reconVars, loopVars, api_responses, use_cache,
                    cache_files, result >>

SpecConstruct == InitConstruct /\ [][Construct]_vars

\* C23: constructing the service never raises, and for every metric whose
\* keyword list the configuration file does not give (no file, a malformed
\* file, no account_keywords table, no such key) the constructed service
\* holds the built-in list.
C23_ConstructionFallsBack ==
    LET LacksList(file, key) ==
            \/ ~file.exists
            \/ ~file.valid
            \/ "account_keywords" \notin DOMAIN file.toml
            \/ key \notin DOMAIN file.toml.account_keywords
    IN  /\ pc # "raised"
        /\ pc = "constructed" =>
              \A key \in CONFIG_KEYS :
                  LacksList(config, key) => keyword_lists[key] = DEFAULT_KEYWORDS[key]

-----------------------------------------------------------------------------
(* dart_financial_adapter.py: DartFinancialAdapter for one (corp_code, year, *)
(* report_type)                                                              *)

\* FinancialStatementType: consolidated and separate
FS_TYPES == { "CFS", "OFS" }

\* the year the statements are asked for
BSNS_YEAR == 2023

RECURSIVE SplitOn(_, _)
\* str.split(c)
SplitOn(s, c) ==
    LET i == IndexFrom(s, c, 1)
    IN  IF i = 0 THEN << s >>
        ELSE << SubSeq(s, 1, i - 1) >> \o SplitOn(SubSeq(s, i + 1, Len(s)), c)

RECURSIVE Strip(_)
\* str.strip() on blanks
Strip(s) ==
    IF s = << >> THEN s
    ELSE IF Head(s) = " " THEN Strip(Tail(s))
    ELSE IF s[Len(s)] = " " THEN Strip(SubSeq(s, 1, Len(s) - 1))
    ELSE s

\* date(y, m, d) from three digit strings; a ValueError is None
DateOf(y, m, d) ==
    LET DaysIn(yy, mm) ==
            IF mm \in { 4, 6, 9, 11 } THEN 30
            ELSE IF mm # 2 THEN 31
            ELSE IF yy % 4 = 0 /\ (yy % 100 # 0 \/ yy % 400 = 0) THEN 29
            ELSE 28
    IN  IF ~(AllDigits(y) /\ AllDigits(m) /\ AllDigits(d)) THEN None
        ELSE IF Len(y) # 4 \/ Len(m) > 2 \/ Len(d) > 2 THEN None
        ELSE IF DigitsValue(y) < 1 \/ DigitsValue(m) \notin 1..12 THEN None
        ELSE IF DigitsValue(d) \notin 1..DaysIn(DigitsValue(y), DigitsValue(m)) THEN None
        ELSE Some(<< DigitsValue(y), DigitsValue(m), DigitsValue(d) >>)

\* datetime.strptime(s, "%Y.%m.%d").date(); a ValueError is None
strptime(s) ==
    LET parts == SplitOn(s, ".")
    IN  IF Len(parts) # 3 THEN None ELSE DateOf(parts[1], parts[2], parts[3])

RECURSIVE Pad(_, _)
\* the digits of n filled with zeros to the width w
Pad(n, w) == IF Len(IntToStr(n)) >= w THEN IntToStr(n) ELSE << "0" >> \o Pad(n, w - 1)

\* date.isoformat()
isoformat(d) == Pad(d[1], 4) \o << "-" >> \o IntToStr(d[2] \div 10) \o IntToStr(d[2] % 10)
                    \o << "-" >> \o IntToStr(d[3] \div 10) \o IntToStr(d[3] % 10)

\* date.fromisoformat(s); a ValueError is None
fromisoformat(s) ==
    LET parts == SplitOn(s, "-")
    IN  IF Len(parts) # 3 \/ Len(s) # 10 THEN None
        ELSE IF Len(parts[2]) # 2 \/ Len(parts[3]) # 2 THEN None
        ELSE DateOf(parts[1], parts[2], parts[3])

\* the fields of a FinancialStatement the adapter decides
RetrievedStatement(bsns_year, fs_type, start_date, end_date, is_cumulative) ==
    [bsns_year |-> bsns_year, fs_type |-> fs_type, start_date |-> start_date,
     end_date |-> end_date, is_cumulative |-> is_cumulative]

\* lines 139-159: << start_date, end_date, is_cumulative >> of a thstrm_dt.
\* A ValueError of the first strptime leaves both dates None; a ValueError of
\* the second leaves start_date assigned.
ParseDates(thstrm_dt) ==
    IF thstrm_dt = << >> THEN << None, None, FALSE >>
    ELSE LET dates == SplitOn(thstrm_dt, "~")
         IN  IF Len(dates) # 2 THEN << None, None, FALSE >>
             ELSE LET start_date == strptime(Strip(dates[1]))
                      end_date   == strptime(Strip(dates[2]))
                  IN  IF start_date = None THEN << None, None, FALSE >>
                      ELSE IF end_date = None THEN << start_date, None, FALSE >>
                      ELSE << start_date, end_date,
                              Get(start_date)[2] = 1 /\ Get(start_date)[3] = 1 >>

\* lines 92-175: the API answers with a list whose first item has the given
\* thstrm_dt, or with nothing usable (None)
_fetch_from_api(api, fs_type) ==
    IF api[fs_type] = None THEN None
    ELSE LET parsed == ParseDates(Get(api[fs_type]))
         IN  Some(RetrievedStatement(BSNS_YEAR, fs_type, parsed[1], parsed[2], parsed[3]))

\* lines 198-227; data is the JSON document of lines 210-224
_save_to_cache(cache, caching, statement) ==
    LET data ==
            [bsns_year |-> statement.bsns_year, fs_type |-> statement.fs_type,
             start_date |-> IF statement.start_date = None THEN None
                            ELSE Some(isoformat(Get(statement.start_date))),
             end_date |-> IF statement.end_date = None THEN None
                          ELSE Some(isoformat(Get(statement.end_date))),
             is_cumulative |-> statement.is_cumulative]
    IN  IF ~caching THEN cache
        ELSE [t \in DOMAIN cache \cup { statement.fs_type } |->
                 IF t = statement.fs_type THEN data ELSE cache[t]]

\* lines 229-273
_load_from_cache(cache, caching, fs_type) ==
    IF ~caching THEN None
    ELSE IF fs_type \notin DOMAIN cache THEN None
    ELSE LET data       == cache[fs_type]
             start_date == IF data.start_date = None THEN None
                           ELSE fromisoformat(Get(data.start_date))
             end_date   == IF data.end_date = None THEN None
                           ELSE fromisoformat(Get(data.end_date))
         IN  Some(RetrievedStatement(data.bsns_year, data.fs_type, start_date, end_date,
                                     data.is_cumulative))

\* the statement types in the order of the preference
TypeOrder(prefer_consolidated) ==
    IF prefer_consolidated THEN << "CFS", "OFS" >> ELSE << "OFS", "CFS" >>

\* lines 42-90: << the statement returned, the cache afterwards >>
get_financial_statement(api, cache, caching, prefer_consolidated) ==
    LET first   == TypeOrder(prefer_consolidated)[1]
        second  == TypeOrder(prefer_consolidated)[2]
        cached1 == _load_from_cache(cache, caching, first)
        cached2 == _load_from_cache(cache, caching, second)
        fetch1  == _fetch_from_api(api, first)
        fetch2  == _fetch_from_api(api, second)
    IN  IF caching /\ cached1 # None THEN << cached1, cache >>
        ELSE IF caching /\ cached2 # None THEN << cached2, cache >>
        ELSE IF fetch1 # None THEN << fetch1, _save_to_cache(cache, caching, Get(fetch1)) >>
        ELSE IF fetch2 # None THEN << fetch2, _save_to_cache(cache, caching, Get(fetch2)) >>
        ELSE << None, cache >>

\* thstrm_dt of the first item: "<start> ~ <end>", nothing, or no "~".
\* Dates are written "<y>.<mm>.<dd>". The period starts on 1 January or 1 July
\* of the year, on 1 January of the year before, or in a month that does not
\* exist; it ends on 30 September or on a day that does not exist.
THSTRM_DTS ==
    LET DateText(y, m, d) ==
            IntToStr(y) \o << "." >> \o IntToStr(m \div 10) \o IntToStr(m % 10)
                        \o << "." >> \o IntToStr(d \div 10) \o IntToStr(d % 10)
        starts == { DateText(BSNS_YEAR, 1, 1), DateText(BSNS_YEAR, 7, 1),
                    DateText(BSNS_YEAR - 1, 1, 1), DateText(BSNS_YEAR, 13, 1) }
        ends   == { DateText(BSNS_YEAR, 9, 30), DateText(BSNS_YEAR, 9, 31) }
    IN  { s \o << " ", "~", " " >> \o e : s \in starts, e \in ends }
            \cup { << >>, DateText(BSNS_YEAR, 1, 1) }

\* what the API has for the two statement types
API_RESPONSES == [FS_TYPES -> { None } \cup { Some(dt) : dt \in THSTRM_DTS }]

MaxGets == 2

InitAdapter ==
    /\ pc = "ready"
    /\ api_responses \in API_RESPONSES
    /\ use_cache \in BOOLEAN
    /\ cache_files = << >>
    /\ result = << >>
    /\ statements = << >>
    /\ metrics = NoMetrics
    /\ annual_values = << >>
    /\ config = << >>
    /\ keyword_lists = << >>
    /\ IdleRecon
    /\ IdleLoop

\* one call of get_financial_statement
GetStatement ==
    /\ runs < MaxGets
    /\ \E prefer_consolidated \in BOOLEAN :
          LET answer == get_financial_statement(api_responses, cache_files, use_cache,
                                                prefer_consolidated)
          IN  /\ result' = [prefer_consolidated |-> prefer_consolidated,
                            statement |-> answer[1]]
              /\ cache_files' = answer[2]
    /\ runs' = runs + 1
    /\ pc' = "returned"
    /\ UNCHANGED << api_responses, use_cache, config, keyword_lists, deriveVars, reconVars,
                    file_sheets, max_api_calls, current_api_calls, idx, collected_data,
                    total_fetches, fetched, looked_up, derived, limit_reached, outcome >>

SpecAdapter == InitAdapter /\ [][GetStatement]_vars

\* C24: every statement get_financial_statement returns, fetched or read from
\* the cache, has is_cumulative true exactly when its start_date is 1 January
\* of its bsns_year; is_cumulative is false for any other start, for a missing
\* start and for a period that cannot be parsed.
C24_CumulativeIffStartsOnNewYear ==
    ( pc = "returned" /\ result.statement # None ) =>
        LET statement == Get(result.statement)
        IN  statement.is_cumulative
                <=> statement.start_date = Some(<< statement.bsns_year, 1, 1 >>)

\* C25: a call with prefer_consolidated true returns a separate statement only
\* when no consolidated statement can be obtained, and a call with
\* prefer_consolidated false returns a consolidated statement only when no
\* separate one can be obtained, whatever calls came before. A statement of a
\* type can be obtained when the cache in use holds one or the API has one.
C25_PreferredTypeFirst ==
    ( pc = "returned" /\ result.statement # None ) =>
        LET preferred == TypeOrder(result.prefer_consolidated)[1]
            Obtainable(fs_type) ==
                \/ use_cache /\ fs_type \in DOMAIN cache_files
                \/ api_responses[fs_type] # None
        IN  Get(result.statement).fs_type # preferred => ~Obtainable(preferred)

\* C26: on one service instance the call counter never exceeds the ceiling by
\* more than three, and the ceiling never cuts a company's retrievals short: a
\* retrieval step neither ends the loop nor marks the ceiling as reached, and
\* every company that was derived had its four period kinds retrieved.
C26_OvershootAtMostThree ==
    /\ [](current_api_calls <= max_api_calls + 3)
    /\ [](\A i \in 1..Len(derived) : Len(derived[i][2]) = 4)
    /\ [][ pc = "fetch" => ( pc' # "finish" /\ limit_reached' = limit_reached ) ]_vars

\* the counter stands three above the ceiling: the last company started one
\* call below the ceiling and made its four retrievals
C26_Witness ==
    /\ max_api_calls > 0
    /\ current_api_calls = max_api_calls + 3
    /\ pc = "derive"
    /\ Len(statements) = 4

\* C27: the call counter of a service instance never decreases and its ceiling
\* never changes, and a run that starts with the counter at or above the
\* ceiling makes no retrieval and saves nothing: from the start of such a run,
\* and as long as the run has retrieved nothing, no step retrieves a statement,
\* writes the file or ends the run as saved.
C27_CounterNeverResets ==
    [][ /\ current_api_calls' >= current_api_calls
        /\ max_api_calls' = max_api_calls
        /\ ( current_api_calls >= max_api_calls /\ (pc = "idle" \/ fetched = {}) )
              => /\ fetched' = {}
                 /\ total_fetches' = total_fetches
                 /\ current_api_calls' = current_api_calls
                 /\ file_sheets' = file_sheets
                 /\ outcome' # "saved" ]_vars

\* a second run on an instance whose first run took the counter to the
\* ceiling has ended at the head of its loop with nothing retrieved
C27_Witness ==
    /\ pc = "idle"
    /\ runs = 2
    /\ max_api_calls > 0
    /\ current_api_calls >= max_api_calls
    /\ limit_reached
    /\ fetched = {}
    /\ outcome = "no_data"

\* C28: the file is written only by the step that ends a run as saved; that
\* step comes after the collection loop, ends the run, and is taken only with
\* collected records, which at least one derived company gave; a run that
\* reaches the end of its loop without records ends as no_data, and a run that
\* ends as file_not_found, no_missing or no_data leaves the file as it was.
C28_SavesOnlyCollectedData ==
    [][ /\ file_sheets' # file_sheets => ( pc = "finish" /\ outcome' = "saved" )
        /\ ( pc # "idle" /\ outcome' = "saved" )
              => /\ pc = "finish"
                 /\ pc' = "idle"
                 /\ collected_data # << >>
                 /\ derived # << >>
        /\ ( pc = "finish" /\ collected_data = << >> ) => outcome' = "no_data"
        /\ outcome' \in { "file_not_found", "no_missing", "no_data" }
              => file_sheets' = file_sheets ]_vars

\* a run in which every company that was tried failed has ended without
\* records and the file is as it was read
C28_Witness ==
    /\ pc = "idle"
    /\ outcome = "no_data"
    /\ fetched # {}
    /\ collected_data = << >>
    /\ file_sheets = Some(existing_sheets)

-----------------------------------------------------------------------------
(* Claims about what gap detection reads *)

\* C29: find_missing_companies reports exactly the entities of the quarterly
\* revenue sheet whose revenue cell of the period is missing or whose period
\* column is not in the revenue sheet, whatever the operating-profit and
\* net-income sheets hold, and reports nothing when there is no revenue sheet.
\* A cell is missing when the sheet, its row or its column is not there, or
\* when it holds NaN.
C29_OnlyRevenueSheetDecides ==
    pc = "found" =>
        LET label == PeriodLabel(target_period[1], target_period[2])
            CellMissing(sheets, name, company, lbl) ==
                \/ name \notin DOMAIN sheets
                \/ company \notin Range(sheets[name].index)
                \/ lbl \notin Range(sheets[name].columns)
                \/ Cell(sheets[name], company, lbl) = NaN
        IN  IF "revenue_quarterly" \notin DOMAIN existing_sheets
            THEN missing_companies = << >>
            ELSE \A company \in Range(existing_sheets["revenue_quarterly"].index)
                                   \cup Range(missing_companies) :
                     company \in Range(missing_companies)
                         <=> CellMissing(existing_sheets, "revenue_quarterly", company, label)

\* an entity whose revenue cell is present and whose operating-profit cell is
\* missing was not reported, while another entity was
C29_Witness ==
    /\ pc = "found"
    /\ DOMAIN existing_sheets = QUARTERLY_SHEETS
    /\ missing_companies # << >>
    /\ LET label == PeriodLabel(target_period[1], target_period[2])
           CellMissing(sheets, name, company, lbl) ==
               \/ company \notin Range(sheets[name].index)
               \/ lbl \notin Range(sheets[name].columns)
               \/ Cell(sheets[name], company, lbl) = NaN
       IN  \E company \in Range(existing_sheets["revenue_quarterly"].index) :
               /\ ~CellMissing(existing_sheets, "revenue_quarterly", company, label)
               /\ CellMissing(existing_sheets, "operating_profit_quarterly", company, label)
               /\ ~CellMissing(existing_sheets, "net_income_quarterly", company, label)
               /\ company \notin Range(missing_companies)

-----------------------------------------------------------------------------
(* Claims about the quarters taken together *)

\* C30: when the four statements are present with every figure and the
\* half-year statement is cumulative, the annual aggregate of each metric, the
\* sum of the four derived quarters, equals the figure of the annual statement,
\* for a cumulative and for a standalone Q3 statement.
C30_QuartersAddUpToAnnual ==
    LET AllFiguresPresent ==
            \A i \in 1..4 :
                /\ statements[i] # None
                /\ \A m \in METRICS : extract_metrics(statements[i])[m] # None
    IN  ( pc = "aggregated" /\ AllFiguresPresent /\ Get(statements[2]).is_cumulative )
            => \A m \in METRICS :
                   /\ \A q \in { "1Q", "2Q", "3Q", "4Q" } :
                          metrics.metrics_by_quarter[q][m] # None
                   /\ annual_values[m] = extract_metrics(statements[4])[m]

\* the quarters were derived from a cumulative half-year and a cumulative Q3
\* statement, the third quarter is the difference of the two, and the annual
\* revenue is the 1,800 of the annual statement
C30_Witness ==
    /\ pc = "aggregated"
    /\ \A i \in 1..4 :
          /\ statements[i] # None
          /\ \A m \in METRICS : extract_metrics(statements[i])[m] # None
    /\ Get(statements[2]).is_cumulative
    /\ Get(statements[3]).is_cumulative
    /\ metrics.metrics_by_quarter["3Q"].revenue = Some(200)
    /\ annual_values.revenue = Some(1800)

=============================================================================
